---- MODULE Spec2Model ----
(***************************************************************************)
(* Model of openlr_dereferencer.decoding: the dispatcher `decode`, the     *)
(* point decoders with the walk `point_along_linelocation`, and the        *)
(* candidate scoring functions.                                            *)
(*                                                                         *)
(* The functions are pure.  The state is one call frame: the operation     *)
(* that ran (op), its arguments (args), what it returned or raised         *)
(* (result) and the decoders it handed the reference to (calls).           *)
(*                                                                         *)
(* Python floats are modelled as exact rationals <<numerator,              *)
(* denominator>> in lowest terms with a positive denominator; angles are   *)
(* whole degrees and map coordinates are whole metres on a plane.          *)
(***************************************************************************)
EXTENDS Integers, Sequences, FiniteSets

VARIABLES pc, op, args, result, calls

vars == <<pc, op, args, result, calls>>

(***************************************************************************)
(* Bounds of the model.                                                    *)
(***************************************************************************)
\* relative offsets are the fractions k / OffDen, k in 0..OffDen
OffDen == 2
\* the route map has the lines 1..NumLines; line i is LenStep * i metres long
NumLines == 3
LenStep == 2
\* at most MaxInbetween whole lines between a route's start and end line
MaxInbetween == 1
\* walking distances are the fractions k / OffDen up to MaxDist metres
MaxDist == 13
\* the readers (maps) a caller may pass are 1..NumReaders
NumReaders == 1
\* angles are the multiples 45 * k degrees, k in -MaxAngleK..MaxAngleK
MaxAngleK == 9
\* search radii are 2 * LegUnit * k metres, k in 1..MaxRadiusK
MaxRadiusK == 2
\* a leg of a scored line is LegUnit * LegK metres; candidates sit every LegUnit
LegUnit == 10
LegK == 4
\* the scored map has the lines 1..NumScoreLines
NumScoreLines == 4
\* LRP coordinates are <<0, LegUnit * k>>, k in 0..MaxCoordK
MaxCoordK == 3

(***************************************************************************)
(* Exact arithmetic standing in for Python's float arithmetic.             *)
(***************************************************************************)
Abs(x) == IF x < 0 THEN -x ELSE x

RECURSIVE GCD(_, _)
GCD(a, b) == IF b = 0 THEN a ELSE GCD(b, a % b)

\* the rational n / d, d > 0, in lowest terms
Rat(n, d) ==
    LET g == GCD(Abs(n), d) IN <<n \div g, d \div g>>

FromInt(n) == <<n, 1>>

RAdd(a, b) == Rat(a[1] * b[2] + b[1] * a[2], a[2] * b[2])

RSub(a, b) == Rat(a[1] * b[2] - b[1] * a[2], a[2] * b[2])

RMul(a, b) == Rat(a[1] * b[1], a[2] * b[2])

RLt(a, b) == a[1] * b[2] < b[1] * a[2]

RLe(a, b) == a[1] * b[2] <= b[1] * a[2]

Zero == FromInt(0)

One == FromInt(1)

Half == Rat(1, 2)

InUnit(a) == RLe(Zero, a) /\ RLe(a, One)

(***************************************************************************)
(* scoring.py: weights and constants                                       *)
(***************************************************************************)
FOW_WEIGHT == Rat(1, 4)

FRC_WEIGHT == Rat(1, 4)

GEO_WEIGHT == Rat(1, 4)

BEAR_WEIGHT == Rat(1, 4)

BEAR_DIST == 20

\* FRC and FOW are the enumerations 0..7 of the openlr package
FRCs == 0 .. 7

FOWs == 0 .. 7

\* one row of the matrix, written in hundredths as in the source
Row(h) == [i \in 1 .. 8 |-> Rat(h[i], 100)]

FOW_STAND_IN_SCORE_LastColumnZero ==
    << Row(<<50, 50, 50, 50, 50, 50, 50, 0>>),
       Row(<<50, 100, 75, 0, 0, 0, 0, 0>>),
       Row(<<50, 75, 100, 75, 50, 0, 0, 0>>),
       Row(<<50, 0, 75, 100, 50, 50, 0, 0>>),
       Row(<<50, 0, 50, 50, 100, 50, 0, 0>>),
       Row(<<50, 0, 0, 50, 50, 100, 0, 0>>),
       Row(<<50, 0, 0, 0, 0, 0, 100, 0>>),
       Row(<<50, 0, 0, 0, 0, 0, 0, 100>>) >>

\* FOW_STAND_IN_SCORE[lrp's fow][candidate's fow]; a Python index i is i + 1 here
FOW_STAND_IN_SCORE ==
    << Row(<<50, 50, 50, 50, 50, 50, 50, 50>>),
       Row(<<50, 100, 75, 0, 0, 0, 0, 0>>),
       Row(<<50, 75, 100, 75, 50, 0, 0, 0>>),
       Row(<<50, 0, 75, 100, 50, 50, 0, 0>>),
       Row(<<50, 0, 50, 50, 100, 50, 0, 0>>),
       Row(<<50, 0, 0, 50, 50, 100, 0, 0>>),
       Row(<<50, 0, 0, 0, 0, 0, 100, 0>>),
       Row(<<50, 0, 0, 0, 0, 0, 0, 100>>) >>

score_fow(wanted, actual) == FOW_STAND_IN_SCORE[wanted + 1][actual + 1]

score_frc_By8(wanted, actual) == RSub(One, Rat(Abs(actual - wanted), 8))

score_frc(wanted, actual) == RSub(One, Rat(Abs(actual - wanted), 7))

score_angle_difference_NoWrap(angle1, angle2) ==
    LET difference == Abs(angle1 - angle2)
    IN  RSub(One, Rat(Abs(difference), 180))

score_angle_difference(angle1, angle2) ==
    LET difference == ((Abs(angle1 - angle2) + 180) % 360) - 180
    IN  RSub(One, Rat(Abs(difference), 180))

(***************************************************************************)
(* maps/wgs84.py, on a plane with whole-metre coordinates <<east, north>>   *)
(***************************************************************************)
ISqrt(n, hi) == CHOOSE r \in 0 .. hi : r * r <= n /\ n < (r + 1) * (r + 1)

\* distance in metres, rounded down to a whole metre
distance(a, b) ==
    LET dx == Abs(b[1] - a[1])
        dy == Abs(b[2] - a[2])
    IN  IF dx = 0 THEN dy
        ELSE IF dy = 0 THEN dx
        ELSE ISqrt(dx * dx + dy * dy, dx + dy)

\* forward azimuth from a to b, clockwise from north, in radians: the
\* rational r stands for r * pi.  Exact on the eight compass directions,
\* interpolated linearly (to a whole degree) inside an octant.
bearing(a, b) ==
    LET dx == b[1] - a[1]
        dy == b[2] - a[2]
        ax == Abs(dx)
        ay == Abs(dy)
        t  == IF ax = 0 THEN 0
              ELSE IF ax <= ay THEN (45 * ax) \div ay
              ELSE 90 - ((45 * ay) \div ax)
        deg == IF dx >= 0 /\ dy >= 0 THEN t
               ELSE IF dx >= 0 THEN 180 - t
               ELSE IF dy < 0 THEN t - 180
               ELSE -t
    IN  Rat(deg, 180)

\* math.degrees: radians r * pi to degrees
degrees(r) == RMul(r, FromInt(180))

\* the point d metres from a towards b
extrapolate(a, b, d) ==
    LET seg == distance(a, b)
    IN  <<a[1] + ((b[1] - a[1]) * d) \div seg, a[2] + ((b[2] - a[2]) * d) \div seg>>

RECURSIVE project_along_path(_, _)
project_along_path(path, d) ==
    LET seg == distance(path[1], path[2])
    IN  IF d = 0 THEN path[1]
        ELSE IF d < seg THEN extrapolate(path[1], path[2], d)
        ELSE IF Len(path) = 2 THEN path[2]
        ELSE project_along_path(Tail(path), d - seg)

(***************************************************************************)
(* maps/abstract.py Line and decoding/tools.py PointOnLine                 *)
(***************************************************************************)
None == <<>>

Line(id, length, fow, frc, coordinates) ==
    [line_id |-> id, length |-> length, fow |-> fow, frc |-> frc,
     coordinates |-> coordinates]

PointOnLine(line, relative_offset) ==
    [line |-> line, relative_offset |-> relative_offset]

\* metres from the line's start; the candidates of the model sit on whole metres
AbsoluteOffset(p) == RMul(FromInt(p.line.length), p.relative_offset)[1]

position(p) == project_along_path(p.line.coordinates, AbsoluteOffset(p))

RECURSIVE PolylineBefore(_, _)
PolylineBefore(path, d) ==
    LET seg == distance(path[1], path[2])
    IN  IF d <= seg \/ Len(path) = 2
        THEN <<path[1], project_along_path(path, d)>>
        ELSE <<path[1]>> \o PolylineBefore(Tail(path), d - seg)

RECURSIVE PolylineAfter(_, _)
PolylineAfter(path, d) ==
    LET seg == distance(path[1], path[2])
    IN  IF d < seg \/ Len(path) = 2
        THEN <<project_along_path(path, d)>> \o Tail(path)
        ELSE PolylineAfter(Tail(path), d - seg)

\* PointOnLine.split: the polylines before and after the point, None when empty
split(p) ==
    LET d == AbsoluteOffset(p)
    IN  << IF d = 0 THEN None ELSE PolylineBefore(p.line.coordinates, d),
           IF d = p.line.length THEN None ELSE PolylineAfter(p.line.coordinates, d) >>

linestring_coords(line) == line

Reverse(s) == [i \in 1 .. Len(s) |-> s[Len(s) + 1 - i]]

LocationReferencePoint(coordinates, frc, fow, bear) ==
    [coordinates |-> coordinates, frc |-> frc, fow |-> fow, bear |-> bear]

coords(lrp) == lrp.coordinates

(***************************************************************************)
(* scoring.py: geolocation, bearing and the weighted sum                   *)
(***************************************************************************)
score_geolocation_NoCutoff(wanted, actual, radius, is_last_lrp) ==
    LET dist == distance(coords(wanted), position(actual))
    IN  RSub(One, Rat(dist, radius))

score_geolocation(wanted, actual, radius, is_last_lrp) ==
    LET dist == distance(coords(wanted), position(actual))
    IN  IF dist < radius THEN RSub(One, Rat(dist, radius)) ELSE Zero

score_bearing(wanted, actual, is_last_lrp) ==
    LET line1 == split(actual)[1]
        line2 == split(actual)[2]
        absent == IF is_last_lrp THEN line1 = None ELSE line2 = None
        coordinates == IF is_last_lrp THEN Reverse(linestring_coords(line1))
                       ELSE linestring_coords(line2)
        absolute_offset == AbsoluteOffset(actual)
        bearing_point == project_along_path(coordinates, absolute_offset + BEAR_DIST)
        bear == degrees(bearing(position(actual), bearing_point))[1]
    IN  IF absent THEN Zero ELSE score_angle_difference(wanted.bear, bear)

score_lrp_candidate(wanted, candidate, radius, is_last_lrp) ==
    RAdd(RAdd(RMul(FOW_WEIGHT, score_fow(wanted.fow, candidate.line.fow)),
              RMul(FRC_WEIGHT, score_frc(wanted.frc, candidate.line.frc))),
         RAdd(RMul(GEO_WEIGHT, score_geolocation(wanted, candidate, radius, is_last_lrp)),
              RMul(BEAR_WEIGHT, score_bearing(wanted, candidate, is_last_lrp))))

(***************************************************************************)
(* decoding/line_location.py: Route                                        *)
(***************************************************************************)
Route(start, path_inbetween, end) ==
    [start |-> start, path_inbetween |-> path_inbetween, end |-> end]

RECURSIVE path_length(_)
path_length(lines) ==
    IF lines = <<>> THEN 0 ELSE Head(lines).length + path_length(Tail(lines))

\* the lines a list of routes touches, a line shared by two ends counted once
RECURSIVE get_lines(_)
get_lines(routes) ==
    IF routes = <<>> THEN <<>>
    ELSE LET part == Head(routes)
         IN  (<<part.start.line>> \o part.path_inbetween
                \o (IF part.end.line.line_id = part.start.line.line_id
                       /\ part.path_inbetween = <<>>
                    THEN <<>> ELSE <<part.end.line>>))
             \o get_lines(Tail(routes))

\* Route.length: metres from the start point to the end point
RouteLength(route) ==
    IF route.start.line.line_id = route.end.line.line_id /\ route.path_inbetween = <<>>
    THEN RMul(FromInt(route.start.line.length),
              RSub(route.end.relative_offset, route.start.relative_offset))
    ELSE RAdd(RAdd(RMul(FromInt(route.start.line.length),
                        RSub(One, route.start.relative_offset)),
                   FromInt(path_length(route.path_inbetween))),
              RMul(FromInt(route.end.line.length), route.end.relative_offset))

(***************************************************************************)
(* decoding/point_locations.py                                             *)
(***************************************************************************)
Point(line, offset) == [kind |-> "point", line |-> line, offset |-> offset]

LRDecodeError(message) == [kind |-> "LRDecodeError", message |-> message]

\* the for loop over route.path_inbetween: the road the walk stops on, or
\* the length left over behind the last road
RECURSIVE WalkInbetween(_, _)
WalkInbetween(roads, leftover_length) ==
    IF roads = <<>> THEN [found |-> FALSE, leftover_length |-> leftover_length]
    ELSE LET road == Head(roads)
         IN  IF RLt(FromInt(road.length), leftover_length)
             THEN WalkInbetween(Tail(roads), RSub(leftover_length, FromInt(road.length)))
             ELSE [found |-> TRUE, road |-> road, leftover_length |-> leftover_length]

point_along_linelocation(route, length) ==
    LET start_length == FromInt(route.start.line.length)
        leftover_start == RSub(length, RMul(start_length, RSub(One, route.start.relative_offset)))
        walk == WalkInbetween(route.path_inbetween, leftover_start)
        end_offset == RMul(FromInt(route.end.line.length), route.end.relative_offset)
        leftover_end == RSub(walk.leftover_length, end_offset)
    IN  IF RLt(leftover_start, Zero)
        THEN Point(route.start.line,
                   RAdd(RMul(start_length, route.start.relative_offset), length))
        ELSE IF walk.found THEN Point(walk.road, walk.leftover_length)
        ELSE IF RLt(leftover_end, Zero) THEN Point(route.end.line, end_offset)
        ELSE LRDecodeError("Path length exceeded while projecting point")

PointAlongLine(line, positive_offset, side, orientation) ==
    [kind |-> "PointAlongLine", line |-> line, positive_offset |-> positive_offset,
     side |-> side, orientation |-> orientation]

\* path is combine_routes(dereference_path(reference.points, reader, radius, observer))
decode_pointalongline(reference, path) ==
    LET absolute_offset == RMul(RouteLength(path), reference.poffs)
        p == point_along_linelocation(path, absolute_offset)
    IN  IF p.kind = "point"
        THEN PointAlongLine(p.line, p.offset, reference.sideOfRoad, reference.orientation)
        ELSE p

PoiWithAccessPoint(line, positive_offset, side, orientation, poi) ==
    [kind |-> "PoiWithAccessPoint", line |-> line, positive_offset |-> positive_offset,
     side |-> side, orientation |-> orientation, poi |-> poi]

\* path is combine_routes(dereference_path(reference.points, reader, radius, observer))
decode_poi_with_accesspoint(reference, path) ==
    LET absolute_offset == RMul(FromInt(path_length(get_lines(<<path>>))), reference.poffs)
        p == point_along_linelocation(path, absolute_offset)
    IN  IF p.kind = "point"
        THEN PoiWithAccessPoint(p.line, p.offset, reference.sideOfRoad,
                                reference.orientation, <<reference.lon, reference.lat>>)
        ELSE p

(***************************************************************************)
(* decoding/__init__.py                                                    *)
(***************************************************************************)
\* the isinstance chain of decode: the decoder a reference is handed to
Decoder_PoiAsPointAlongLine(reference) ==
    IF reference.type = "LineLocation" THEN "decode_line"
    ELSE IF reference.type \in {"PointAlongLineLocation", "PoiWithAccessPointLocation"}
    THEN "decode_pointalongline"
    ELSE IF reference.type = "GeoCoordinateLocation" THEN "point"
    ELSE "raise"

Decoder(reference) ==
    IF reference.type = "LineLocation" THEN "decode_line"
    ELSE IF reference.type = "PointAlongLineLocation" THEN "decode_pointalongline"
    ELSE IF reference.type = "GeoCoordinateLocation" THEN "point"
    ELSE IF reference.type = "PoiWithAccessPointLocation" THEN "decode_poi_with_accesspoint"
    ELSE "raise"

\* decode_line lives outside these files: its result is the path it found
decode_line(reference, path) == [kind |-> "LineLocation", path |-> path]

decode(reference, path) ==
    LET decoder == Decoder(reference)
    IN  IF decoder = "decode_line" THEN decode_line(reference, path)
        ELSE IF decoder = "decode_pointalongline" THEN decode_pointalongline(reference, path)
        ELSE IF decoder = "point" THEN reference.point
        ELSE IF decoder = "decode_poi_with_accesspoint"
        THEN decode_poi_with_accesspoint(reference, path)
        ELSE LRDecodeError("Currently, the following reference types are supported")

(***************************************************************************)
(* Inputs                                                                  *)
(***************************************************************************)
Angles == {45 * k : k \in -MaxAngleK .. MaxAngleK}

Radii == {2 * LegUnit * k : k \in 1 .. MaxRadiusK}

Leg == LegUnit * LegK

\* the scored map: odd lines run straight east, even lines turn north half way
ScoreLine(i) ==
    Line(i, 2 * Leg, (3 * (i - 1)) % 8, (7 * (i - 1)) % 8,
         IF i % 2 = 1 THEN << <<0, 0>>, <<2 * Leg, 0>> >>
         ELSE << <<0, 0>>, <<Leg, 0>>, <<Leg, Leg>> >>)

ScoreLines == {ScoreLine(i) : i \in 1 .. NumScoreLines}

\* candidates every LegUnit metres of a scored line, both ends included
Candidates ==
    {PointOnLine(l, Rat(k, 2 * LegK)) : l \in ScoreLines, k \in 0 .. 2 * LegK}

LrpCoords == {<<0, LegUnit * k>> : k \in 0 .. MaxCoordK}

\* the LRP bearings tried with the weighted sum
LrpBearings == {0, 90, 225}

Offsets == {Rat(k, OffDen) : k \in 0 .. OffDen}

Distances == {Rat(k, OffDen) : k \in 0 .. OffDen * MaxDist}

\* the route map: line i runs straight east for LenStep * i metres
RouteLine(i) == Line(i, LenStep * i, 3, 2, << <<0, 0>>, <<LenStep * i, 0>> >>)

LineIds == 1 .. NumLines

\* sequences of up to MaxInbetween distinct lines that avoid the ids in used
RECURSIVE Inbetweens(_, _)
Inbetweens(n, used) ==
    IF n = 0 THEN {<<>>}
    ELSE {<<>>} \cup
         UNION {{<<RouteLine(i)>> \o rest : rest \in Inbetweens(n - 1, used \cup {i})} :
                i \in LineIds \ used}

\* the routes the line decoding hands over: within one line from a start
\* offset to an end offset not before it, or from one line over distinct
\* whole lines to another line
Routes ==
    LET SameLine ==
            {Route(PointOnLine(RouteLine(t[1]), t[2]), <<>>, PointOnLine(RouteLine(t[1]), t[3])) :
                t \in {u \in LineIds \X Offsets \X Offsets : RLe(u[2], u[3])}}
        Across ==
            UNION {{Route(PointOnLine(RouteLine(t[1]), t[3]), mid,
                          PointOnLine(RouteLine(t[2]), t[4])) :
                        mid \in Inbetweens(MaxInbetween, {t[1], t[2]})} :
                   t \in {u \in LineIds \X LineIds \X Offsets \X Offsets : u[1] # u[2]}}
    IN  SameLine \cup Across

\* the location references a caller may pass to decode
References ==
    {[type |-> "LineLocation"], [type |-> "CircleLocation"]}
    \cup {[type |-> "GeoCoordinateLocation", point |-> c] : c \in LrpCoords}
    \cup {[type |-> "PointAlongLineLocation", poffs |-> f, sideOfRoad |-> "RIGHT",
           orientation |-> "WITH_LINE_DIRECTION"] : f \in Offsets}
    \cup {[type |-> "PoiWithAccessPointLocation", poffs |-> f, sideOfRoad |-> "RIGHT",
           orientation |-> "WITH_LINE_DIRECTION", lon |-> 0, lat |-> LegUnit] : f \in Offsets}

Readers == 1 .. NumReaders

Observers == {"None", "observer"}

NoResult == [kind |-> "none"]

Value(v) == [kind |-> "value", value |-> v]

(***************************************************************************)
(* Operations                                                              *)
(***************************************************************************)
Init ==
    /\ pc = "idle"
    /\ op = "none"
    /\ args = <<>>
    /\ result = NoResult
    /\ calls = <<>>

ScoreFow ==
    /\ pc = "idle"
    /\ \E wanted \in FOWs, actual \in FOWs :
          /\ args' = [wanted |-> wanted, actual |-> actual]
          /\ result' = Value(score_fow(wanted, actual))
    /\ op' = "score_fow"
    /\ pc' = "done"
    /\ UNCHANGED calls

ScoreFrc ==
    /\ pc = "idle"
    /\ \E wanted \in FRCs, actual \in FRCs :
          /\ args' = [wanted |-> wanted, actual |-> actual]
          /\ result' = Value(score_frc(wanted, actual))
    /\ op' = "score_frc"
    /\ pc' = "done"
    /\ UNCHANGED calls

ScoreAngleDifference ==
    /\ pc = "idle"
    /\ \E angle1 \in Angles, angle2 \in Angles :
          /\ args' = [angle1 |-> angle1, angle2 |-> angle2]
          /\ result' = Value(score_angle_difference(angle1, angle2))
    /\ op' = "score_angle_difference"
    /\ pc' = "done"
    /\ UNCHANGED calls

ScoreGeolocation ==
    /\ pc = "idle"
    /\ \E c \in LrpCoords, actual \in Candidates, radius \in Radii, is_last_lrp \in BOOLEAN :
          LET wanted == LocationReferencePoint(c, 0, 0, 0)
          IN  /\ args' = [wanted |-> wanted, actual |-> actual, radius |-> radius,
                          is_last_lrp |-> is_last_lrp]
              /\ result' = Value(score_geolocation(wanted, actual, radius, is_last_lrp))
    /\ op' = "score_geolocation"
    /\ pc' = "done"
    /\ UNCHANGED calls

ScoreBearing ==
    /\ pc = "idle"
    /\ \E bear \in Angles, actual \in Candidates, is_last_lrp \in BOOLEAN :
          LET wanted == LocationReferencePoint(<<0, 0>>, 0, 0, bear)
          IN  /\ args' = [wanted |-> wanted, actual |-> actual, is_last_lrp |-> is_last_lrp]
              /\ result' = Value(score_bearing(wanted, actual, is_last_lrp))
    /\ op' = "score_bearing"
    /\ pc' = "done"
    /\ UNCHANGED calls

ScoreLrpCandidate ==
    /\ pc = "idle"
    /\ \E fow \in FOWs, frc \in FRCs, bear \in LrpBearings, c \in LrpCoords,
          line \in ScoreLines, k \in {0, LegK, 2 * LegK},
          radius \in Radii, is_last_lrp \in BOOLEAN :
          LET wanted == LocationReferencePoint(c, frc, fow, bear)
              candidate == PointOnLine(line, Rat(k, 2 * LegK))
          IN  /\ args' = [wanted |-> wanted, candidate |-> candidate, radius |-> radius,
                          is_last_lrp |-> is_last_lrp]
              /\ result' = Value(score_lrp_candidate(wanted, candidate, radius, is_last_lrp))
    /\ op' = "score_lrp_candidate"
    /\ pc' = "done"
    /\ UNCHANGED calls

PointAlongLinelocation ==
    /\ pc = "idle"
    /\ \E route \in Routes, length \in Distances :
          /\ args' = [route |-> route, length |-> length]
          /\ result' = point_along_linelocation(route, length)
    /\ op' = "point_along_linelocation"
    /\ pc' = "done"
    /\ UNCHANGED calls

\* decode(reference, reader, radius, observer); path is the route the line
\* decoding finds for the reference on the reader's map, when a decoder runs
Decode ==
    /\ pc = "idle"
    /\ \E reference \in References, reader \in Readers, radius \in Radii,
          observer \in Observers, path \in Routes :
          LET decoder == Decoder(reference)
              handed == decoder \notin {"point", "raise"}
          IN  /\ args' = [reference |-> reference, reader |-> reader, radius |-> radius,
                          observer |-> observer,
                          path |-> IF handed THEN path ELSE None]
              /\ calls' = IF handed
                          THEN <<[decoder |-> decoder, reference |-> reference,
                                  reader |-> reader, radius |-> radius,
                                  observer |-> observer]>>
                          ELSE <<>>
              /\ result' = decode(reference, path)
    /\ op' = "decode"
    /\ pc' = "done"

Next ==
    \/ PointAlongLinelocation
    \/ Decode
    \/ ScoreFow
    \/ ScoreFrc
    \/ ScoreAngleDifference
    \/ ScoreGeolocation
    \/ ScoreBearing
    \/ ScoreLrpCandidate

Spec == Init /\ [][Next]_vars

(***************************************************************************)
(* Properties                                                              *)
(***************************************************************************)
RouteLineSeq(route) == get_lines(<<route>>)

RECURSIVE LengthBefore(_, _)
LengthBefore(lines, i) ==
    IF i = 1 THEN 0 ELSE lines[i - 1].length + LengthBefore(lines, i - 1)

StartOffsetMetres(route) ==
    RMul(FromInt(route.start.line.length), route.start.relative_offset)

\* C1: for a distance d with 0 <= d <= length(R), point_along_linelocation
\* returns a point and does not raise; the returned line is one of R's lines
\* and the returned offset lies in [0, line.length].
C1_PointWithinRoute ==
    (op = "point_along_linelocation" /\ RLe(args.length, RouteLength(args.route)))
        => /\ result.kind = "point"
           /\ \E i \in 1 .. Len(RouteLineSeq(args.route)) :
                  RouteLineSeq(args.route)[i] = result.line
           /\ RLe(Zero, result.offset)
           /\ RLe(result.offset, FromInt(result.line.length))

\* C2: for a distance d in [0, length(R)), the returned (line, offset) is the
\* point d metres along R from R's start point: the lengths of the route's
\* lines before the returned line, plus the offset, minus the start point's
\* metric offset on the start line, is d.
C2_PointAtDistance ==
    (op = "point_along_linelocation" /\ RLt(args.length, RouteLength(args.route)))
        => /\ result.kind = "point"
           /\ \E i \in 1 .. Len(RouteLineSeq(args.route)) :
                  /\ RouteLineSeq(args.route)[i] = result.line
                  /\ RSub(RAdd(FromInt(LengthBefore(RouteLineSeq(args.route), i)),
                               result.offset),
                          StartOffsetMetres(args.route)) = args.length

\* C3: for a distance d > length(R), point_along_linelocation raises the
\* path-exhausted decode error and returns no point.
C3_ExhaustedRaises ==
    (op = "point_along_linelocation" /\ RLt(RouteLength(args.route), args.length))
        => result.kind = "LRDecodeError"

\* C4: for the same path and poffs the POI decoder returns the same
\* (line, positive_offset) as the point-along-line decoder, both walking
\* route_length(path) * poffs into the route.
C4_SameOffsetBase ==
    (op = "decode" /\ args.reference.type = "PoiWithAccessPointLocation")
        => LET pal == decode_pointalongline(args.reference, args.path)
           IN  \/ /\ pal.kind = "PointAlongLine"
                  /\ result.kind = "PoiWithAccessPoint"
                  /\ result.line = pal.line
                  /\ result.positive_offset = pal.positive_offset
               \/ /\ pal.kind = "LRDecodeError"
                  /\ result.kind = "LRDecodeError"

\* C5 as stated: FOW_STAND_IN_SCORE[f][f] = 1.0 for every f in 0..7, f = 0
\* included, and FOW_STAND_IN_SCORE[0][g] = FOW_STAND_IN_SCORE[g][0] = 0.5 for
\* every g in 0..7; score_fow returns the table entry.
C5_DiagonalIncludingUndefined ==
    op = "score_fow"
        => /\ (args.wanted = args.actual => result.value = One)
           /\ ((args.wanted = 0 \/ args.actual = 0) => result.value = Half)
           /\ result.value = FOW_STAND_IN_SCORE[args.wanted + 1][args.actual + 1]

\* C5 amended: FOW_STAND_IN_SCORE[f][f] = 1.0 for every f in 1..7, and
\* FOW_STAND_IN_SCORE[0][g] = FOW_STAND_IN_SCORE[g][0] = 0.5 for every g in
\* 0..7 (so the Undefined/Undefined entry is 0.5); score_fow returns the
\* table entry.
C5_FowMatrix ==
    op = "score_fow"
        => /\ ((args.wanted = args.actual /\ args.wanted # 0) => result.value = One)
           /\ ((args.wanted = 0 \/ args.actual = 0) => result.value = Half)
           /\ result.value = FOW_STAND_IN_SCORE[args.wanted + 1][args.actual + 1]

C5_Witness ==
    /\ op = "score_fow"
    /\ args.wanted = 0
    /\ args.actual = 7
    /\ result.value = Half

\* C6: score_fow, score_frc, score_geolocation and score_bearing are in
\* [0,1], the four weights sum to 1, and score_lrp_candidate is in [0,1];
\* score_frc(x, x) = 1 and score_frc(0, 7) = 0.
C6_ScoresInUnitInterval ==
    /\ RAdd(RAdd(FOW_WEIGHT, FRC_WEIGHT), RAdd(GEO_WEIGHT, BEAR_WEIGHT)) = One
    /\ op \in {"score_fow", "score_frc", "score_geolocation", "score_bearing",
                "score_lrp_candidate"} => InUnit(result.value)
    /\ op = "score_frc"
          => /\ (args.wanted = args.actual => result.value = One)
             /\ ((args.wanted = 0 /\ args.actual = 7) => result.value = Zero)

C6_Witness ==
    /\ op = "score_lrp_candidate"
    /\ args.wanted.fow # 0
    /\ args.wanted.frc = 6
    /\ result.value = One

\* C7: score_angle_difference(a, a) = 1, score_angle_difference(a, a + 180)
\* = 0, the score is symmetric in its arguments, and it is unchanged when
\* either argument is shifted by 360 degrees.
C7_AngleDifference ==
    op = "score_angle_difference"
        => LET a == args.angle1
               b == args.angle2
           IN  /\ (a = b => result.value = One)
               /\ (b = a + 180 => result.value = Zero)
               /\ result.value = score_angle_difference(b, a)
               /\ result.value = score_angle_difference(a + 360, b)
               /\ result.value = score_angle_difference(a - 360, b)
               /\ result.value = score_angle_difference(a, b + 360)
               /\ result.value = score_angle_difference(a, b - 360)

C7_Witness ==
    /\ op = "score_angle_difference"
    /\ args.angle1 = -45
    /\ args.angle2 = 405
    /\ result.value = Half

\* C8: score_geolocation depends only on the distance dist and on radius,
\* not on is_last_lrp: it is 1 at dist = 0, 1 - dist/radius for
\* 0 <= dist < radius, 0 for dist >= radius, and non-increasing in dist.
C8_Geolocation ==
    op = "score_geolocation"
        => LET dist == distance(coords(args.wanted), position(args.actual))
           IN  /\ (dist = 0 => result.value = One)
               /\ (dist < args.radius
                      => result.value = RSub(One, Rat(dist, args.radius)))
               /\ (dist >= args.radius => result.value = Zero)
               /\ result.value = score_geolocation(args.wanted, args.actual, args.radius,
                                                   ~args.is_last_lrp)
               /\ \A other \in Candidates :
                      distance(coords(args.wanted), position(other)) >= dist
                        => RLe(score_geolocation(args.wanted, other, args.radius,
                                                 args.is_last_lrp),
                               result.value)

C8_Witness ==
    /\ op = "score_geolocation"
    /\ distance(coords(args.wanted), position(args.actual)) = args.radius
    /\ args.is_last_lrp
    /\ result.value = Zero

\* C9: decode returns a GeoCoordinateLocation's own coordinate and calls no
\* decoder; it hands a LineLocation, PointAlongLineLocation or
\* PoiWithAccessPointLocation to exactly its own decoder with the caller's
\* reader, radius and observer; any other reference raises the decode error
\* and calls no decoder.
C9_Dispatch ==
    op = "decode"
        => LET reference == args.reference
               Call(decoder) ==
                   <<[decoder |-> decoder, reference |-> reference, reader |-> args.reader,
                      radius |-> args.radius, observer |-> args.observer]>>
           IN  /\ reference.type = "GeoCoordinateLocation"
                     => (result = reference.point /\ calls = <<>>)
               /\ reference.type = "LineLocation"
                     => /\ calls = Call("decode_line")
                        /\ result = decode_line(reference, args.path)
               /\ reference.type = "PointAlongLineLocation"
                     => /\ calls = Call("decode_pointalongline")
                        /\ result = decode_pointalongline(reference, args.path)
               /\ reference.type = "PoiWithAccessPointLocation"
                     => /\ calls = Call("decode_poi_with_accesspoint")
                        /\ result = decode_poi_with_accesspoint(reference, args.path)
               /\ reference.type \notin {"GeoCoordinateLocation", "LineLocation",
                                         "PointAlongLineLocation",
                                         "PoiWithAccessPointLocation"}
                     => (result.kind = "LRDecodeError" /\ calls = <<>>)

C9_Witness ==
    /\ op = "decode"
    /\ args.reference.type = "PoiWithAccessPointLocation"
    /\ Len(calls) = 1
    /\ calls[1].decoder = "decode_poi_with_accesspoint"
    /\ result.kind = "PoiWithAccessPoint"

\* C10: score_bearing is score_angle_difference(wanted.bear, b), b the bearing
\* from the candidate's position to the point exactly BEAR_DIST metres from
\* the candidate along the forward-looking sub-polyline, whatever the
\* candidate's offset; it is 0 when that sub-polyline is absent.
C10_BearingProbe ==
    op = "score_bearing"
        => LET actual == args.actual
               forward == IF args.is_last_lrp
                          THEN (IF split(actual)[1] = None THEN None
                                ELSE Reverse(split(actual)[1]))
                          ELSE split(actual)[2]
           IN  IF forward = None THEN result.value = Zero
               ELSE result.value =
                      score_angle_difference(
                          args.wanted.bear,
                          degrees(bearing(position(actual),
                                          project_along_path(forward, BEAR_DIST)))[1])

====
